---- MODULE Spec2Model ----
(***************************************************************************)
(* periodic_timer.py: a command-line interval timer that cycles through a  *)
(* sequence of period durations, counts each one down with one status line *)
(* per second and, when a period has elapsed, asks the user in a modal     *)
(* dialog whether to continue or to get more time.                         *)
(*                                                                         *)
(* Strings are sequences of one-character strings.  Time spans             *)
(* (datetime.timedelta) are integers counting tenths of a second.          *)
(***************************************************************************)
EXTENDS Integers, Sequences, FiniteSets, TLC

\* ------------------------------------------------------------------ bounds

\* The accept step is taken only while period_counter is below this cap.
MaxPeriods == 4

\* The Cancel answers of one cycle are counted up to this number.
MaxDeclines == 2

\* time.sleep(1) returns after 1 s plus at most this many tenths of a second.
MaxJitter == 3

\* ------------------------------------------------------------- time spans

\* Tenths of a second in one second: the resolution at which the quotient
\* period_duration / 10 of a whole number of seconds is exact.
Second == 10

Minute == 60 * Second

Hour == 60 * Minute

ZERO == 0

\* ---------------------------------------------------------------- strings

Digits == {"0", "1", "2", "3", "4", "5", "6", "7", "8", "9"}

Letters ==
  {"a", "b", "c", "d", "e", "f", "g", "h", "i", "j", "k", "l", "m",
   "n", "o", "p", "q", "r", "s", "t", "u", "v", "w", "x", "y", "z",
   "A", "B", "C", "D", "E", "F", "G", "H", "I", "J", "K", "L", "M",
   "N", "O", "P", "Q", "R", "S", "T", "U", "V", "W", "X", "Y", "Z"}

\* The value of Optional[str] that is no string.  No label is ever empty:
\* LABEL_RE matches two characters at least.
None == <<>>

DigitValue(c) == CHOOSE n \in 0..9 : ToString(n) = c

\* int() of a string of decimal digits.
RECURSIVE int(_)
int(ds) ==
  IF ds = <<>> THEN 0
  ELSE 10 * int(SubSeq(ds, 1, Len(ds) - 1)) + DigitValue(ds[Len(ds)])

\* The length of the longest prefix of s whose characters are all in class.
RECURSIVE PrefixLen(_, _)
PrefixLen(s, class) ==
  IF s = <<>> \/ s[1] \notin class THEN 0
  ELSE 1 + PrefixLen(Tail(s), class)

\* The pattern's $: the end of the string, or just before a newline that ends it.
AtEnd(rest) == rest = <<>> \/ rest = <<"\n">>

\* ^(\d+)<one of suffixes>$ : the match's group 1, or None.
MatchUnit(value, suffixes) ==
  LET k == PrefixLen(value, Digits)
      rest == SubSeq(value, k + 1, Len(value))
  IN  IF /\ k >= 1
         /\ \E sfx \in suffixes :
               /\ Len(rest) >= Len(sfx)
               /\ SubSeq(rest, 1, Len(sfx)) = sfx
               /\ AtEnd(SubSeq(rest, Len(sfx) + 1, Len(rest)))
      THEN SubSeq(value, 1, k)
      ELSE None

\* ^([a-zA-Z_][a-zA-Z0-9_]+): : the match's group 1, or None.
LABEL_RE(argument) ==
  LET k == PrefixLen(argument, Letters \cup Digits \cup {"_"})
  IN  IF /\ k >= 2
         /\ argument[1] \in Letters \cup {"_"}
         /\ Len(argument) > k
         /\ argument[k + 1] = ":"
      THEN SubSeq(argument, 1, k)
      ELSE None

\* Faulty variant of HOURS_RE: the long form of the unit is not accepted.
HOURS_RE_ShortOnly(value) == MatchUnit(value, {<<"h">>})

HOURS_RE(value) == MatchUnit(value, {<<"h">>, <<"h", "o", "u", "r", "s">>})

MINUTES_RE(value) ==
  MatchUnit(value, {<<"m">>, <<"m", "i", "n">>,
                    <<"m", "i", "n", "u", "t", "e", "s">>})

SECONDS_RE(value) ==
  MatchUnit(value, {<<"s">>, <<"s", "e", "c">>,
                    <<"s", "e", "c", "o", "n", "d", "s">>})

\* ---------------------------------------------------------------- parsing

\* A call's outcome: the value it returns, or the ValueError it raises.
Returned(v) == [raised |-> FALSE, value |-> v]

Raised(what) == [raised |-> TRUE, value |-> what]

_interpret_period_duration_value(value) ==
  IF HOURS_RE(value) # None THEN Returned(int(HOURS_RE(value)) * Hour)
  ELSE IF MINUTES_RE(value) # None THEN Returned(int(MINUTES_RE(value)) * Minute)
  ELSE IF SECONDS_RE(value) # None THEN Returned(int(SECONDS_RE(value)) * Second)
  ELSE Raised(value)

_PeriodDuration(label, duration) == [label |-> label, duration |-> duration]

_interpret_period_duration_argument(argument) ==
  LET label == LABEL_RE(argument)
      value == IF label # None
               THEN SubSeq(argument, Len(label) + 2, Len(argument))
               ELSE argument
      d == _interpret_period_duration_value(value)
  IN  IF d.raised THEN d
      ELSE Returned(_PeriodDuration(label, d.value))

\* The position of the first c in s, or 0 when s has none.
RECURSIVE Find(_, _)
Find(s, c) ==
  IF s = <<>> THEN 0
  ELSE IF s[1] = c THEN 1
  ELSE IF Find(Tail(s), c) = 0 THEN 0
  ELSE 1 + Find(Tail(s), c)

\* str.split(","): the pieces between the commas, in order.
RECURSIVE Split(_)
Split(argument) ==
  LET k == Find(argument, ",")
  IN  IF k = 0 THEN <<argument>>
      ELSE <<SubSeq(argument, 1, k - 1)>>
             \o Split(SubSeq(argument, k + 1, Len(argument)))

\* The list comprehension: the first token that raises ends it.
RECURSIVE InterpretAll(_)
InterpretAll(tokens) ==
  IF tokens = <<>> THEN Returned(<<>>)
  ELSE LET first == _interpret_period_duration_argument(Head(tokens))
           rest == InterpretAll(Tail(tokens))
       IN  IF first.raised THEN first
           ELSE IF rest.raised THEN rest
           ELSE Returned(<<first.value>> \o rest.value)

_interpret_period_duration_arguments(argument) == InterpretAll(Split(argument))

_Arguments(period_durations, min_more_time) ==
  [period_durations |-> period_durations, min_more_time |-> min_more_time]

\* args: the two option values argparse hands over.
_parse_arguments(args) ==
  LET ds == _interpret_period_duration_arguments(args.period_durations)
      m == _interpret_period_duration_argument(args.min_more_time)
  IN  IF ds.raised THEN ds
      ELSE IF m.raised THEN m
      ELSE Returned(_Arguments(ds.value, m.value.duration))

\* -------------------------------------------------------------- countdown

Max(a, b) == IF a >= b THEN a ELSE b

\* round() of a float: to the nearest integer, a tie to the even one.
\* t is a number of tenths; the result is a whole number.
round(t) ==
  LET q == t \div Second
      r == t % Second
  IN  IF 2 * r < Second THEN q
      ELSE IF 2 * r > Second THEN q + 1
      ELSE IF q % 2 = 0 THEN q
      ELSE q + 1

\* timedelta(seconds=round((t + timedelta(seconds=0.5)).total_seconds()))
_round_to_nearest_second(t) == round(t + Second \div 2) * Second

_PrintMetaInfo(period_counter_, period_duration_, period_label_, is_overtime_) ==
  [period_counter |-> period_counter_,
   period_duration |-> period_duration_,
   period_label |-> period_label_,
   is_overtime |-> is_overtime_]

\* Faulty variant of with_is_overtime: the label is left at its default.
with_is_overtime_unlabelled(self) ==
  _PrintMetaInfo(self.period_counter, self.period_duration, None, TRUE)

\* Faulty variant of with_is_overtime: the flag is not set.
with_is_overtime_unset(self) == self

with_is_overtime(self) ==
  _PrintMetaInfo(self.period_counter, self.period_duration,
                 self.period_label, TRUE)

\* Faulty variants of StillCounting: one leaves the loop a second early,
\* one stays in it at zero.
StillCountingEarlyExit(remaining) == remaining > Second

StillCountingAtZero(remaining) == remaining >= ZERO

\* The loop condition of _sleep_for.
StillCounting(remaining) == remaining > ZERO

\* The status line _sleep_for prints: the period's ordinal, the remaining
\* time it shows, the period's duration and label, and which of the two
\* layouts is used.
StatusLine(remaining, info) ==
  [layout |-> IF ~info.is_overtime THEN "countdown" ELSE "overtime",
   period_counter |-> info.period_counter,
   shown |-> _round_to_nearest_second(remaining),
   period_duration |-> info.period_duration,
   period_label |-> info.period_label]

\* ------------------------------------------------------------------ state

VARIABLES
  args,                   \* the command line's two option values
  dialog_available,       \* whether tkinter.Tk() succeeds in this environment
  pc,                     \* where the process is
  arguments,              \* main: the parsed _Arguments
  _MIN_MORE_TIME,         \* the module's global
  period_counter,         \* main: the cycle counter
  period_index,           \* main
  print_info,             \* main and _ask_user_to_continue: print_info
  sleep_period_duration,  \* _sleep_for: period_duration, the countdown's target
  sleep_print_info,       \* _sleep_for: print_info
  elapsed,                \* _sleep_for: datetime.now() - period_start, as last read
  time_remaining,         \* _sleep_for: time_remaining, as last computed
  stdout,                 \* the line last written to standard output
  message,                \* the message of the dialog last shown
  roots,                  \* the tkinter.Tk() roots created and not destroyed
  event,                  \* history: what the last step was
  accepted,               \* history: how often the user has chosen OK
  declines                \* history: Cancel answers in this cycle, up to MaxDeclines

vars ==
  <<args, dialog_available, pc, arguments, _MIN_MORE_TIME, period_counter,
    period_index, print_info, sleep_period_duration, sleep_print_info,
    elapsed, time_remaining, stdout, message, roots, event, accepted,
    declines>>

\* Faulty variant of _more_time: the tenth of the period is left out.
_more_time_floor_only(period_duration) == _MIN_MORE_TIME

\* _MIN_MORE_TIME is read when the grant is computed.  period_duration / 10
\* is exact in tenths for a whole number of seconds, which every parsed
\* duration is.
_more_time(period_duration) ==
  Max(_MIN_MORE_TIME, _round_to_nearest_second(period_duration \div 10))

\* Faulty variant of Message: the time offered is the floor.
MessageFloorOnly(info) ==
  [period_counter |-> info.period_counter,
   period_duration |-> info.period_duration,
   more_time |-> _MIN_MORE_TIME]

\* The dialog's message: the ordinal, the duration, the time offered.
Message(info) ==
  [period_counter |-> info.period_counter,
   period_duration |-> info.period_duration,
   more_time |-> _more_time(info.period_duration)]

\* Faulty variant of AskAgain: the answer is not looked at.
AskAgainWhatever(answer) == TRUE

\* The condition of the while loop of _ask_user_to_continue: answer is what
\* askokcancel returned, TRUE for OK.
AskAgain(answer) == answer = FALSE

\* Faulty variant of LoopCondition: main returns after two periods.
LoopConditionTwoPeriods == period_counter < 2

\* The condition of the while loop of main.
LoopCondition == TRUE

\* Faulty variant of PeriodIndex: one entry ahead.
PeriodIndexOneAhead(counter, period_durations) ==
  (counter + 1) % Len(period_durations)

PeriodIndex(counter, period_durations) == counter % Len(period_durations)

\* Faulty variant of NextCounter: the counter is left as it is.
NextCounterForgotten(counter) == counter

\* Faulty variant of NextCounter: the counter advances by two.
NextCounterByTwo(counter) == counter + 2

NextCounter(counter) == counter + 1

\* ----------------------------------------------------------------- inputs

\* The command lines tried: -d / --period-durations and --min-more-time.
CommandLines ==
  { [period_durations |-> <<"w", "k", ":", "2", "s", ",", "1", "s">>,
     min_more_time |-> <<"1", "s">>],
    [period_durations |-> <<"1", "0", "s">>,
     min_more_time |-> <<"0", "s">>],
    [period_durations |-> <<"0", "h", ",", "1", "s", "e", "c">>,
     min_more_time |-> <<"0", "m", "i", "n">>],
    [period_durations |-> <<"3", "s", ",", "a", "_", ":", "2", "s", ",", "1", "s">>,
     min_more_time |-> <<"t", "m", ":", "2", "s">>],
    [period_durations |-> <<"1", "0", "x">>,
     min_more_time |-> <<"1", "s">>],
    [period_durations |-> <<"2", "s">>,
     min_more_time |-> <<"a", "b", "c">>],
    [period_durations |-> <<>>,
     min_more_time |-> <<"1", "s">>],
    [period_durations |-> <<"1", "s", ",", "a", "b", "c">>,
     min_more_time |-> <<"1", "s">>],
    [period_durations |-> <<"1", "s", "\n">>,
     min_more_time |-> <<"1", "s">>] }

\* What a sleep of one second adds to the clock.
SleepTimes == {Second + j : j \in 0..MaxJitter}

NoInfo == _PrintMetaInfo(0, ZERO, None, FALSE)

NoLine == [layout |-> "none"]

ClearLine == [layout |-> "clear"]

NoMessage == [period_counter |-> 0, period_duration |-> ZERO, more_time |-> ZERO]

Init ==
  /\ args \in CommandLines
  /\ dialog_available \in BOOLEAN
  /\ pc = "main"
  /\ arguments = _Arguments(<<>>, ZERO)
  /\ _MIN_MORE_TIME = 60 * Second
  /\ period_counter = 0
  /\ period_index = 0
  /\ print_info = NoInfo
  /\ sleep_period_duration = ZERO
  /\ sleep_print_info = NoInfo
  /\ elapsed = 0
  /\ time_remaining = ZERO
  /\ stdout = NoLine
  /\ message = NoMessage
  /\ roots = 0
  /\ event = "start"
  /\ accepted = 0
  /\ declines = 0

\* ---------------------------------------------------------------- actions

\* Faulty variant of Startup: without the global statement the assignment
\* binds a local name and the module's _MIN_MORE_TIME keeps its default.
StartupWithoutGlobal ==
  /\ pc = "main"
  /\ _parse_arguments(args).raised = FALSE
  /\ arguments' = _parse_arguments(args).value
  /\ stdout' = [layout |-> "summary", periods |-> arguments'.period_durations]
  /\ period_counter' = 0
  /\ pc' = "loop"
  /\ event' = "startup"
  /\ UNCHANGED <<args, dialog_available, _MIN_MORE_TIME, period_index,
                 print_info, sleep_period_duration, sleep_print_info, elapsed,
                 time_remaining, message, roots, accepted, declines>>

\* main: the arguments are parsed, the summary is printed, the global and
\* the counter are set.
Startup ==
  /\ pc = "main"
  /\ _parse_arguments(args).raised = FALSE
  /\ arguments' = _parse_arguments(args).value
  /\ stdout' = [layout |-> "summary", periods |-> arguments'.period_durations]
  /\ _MIN_MORE_TIME' = arguments'.min_more_time
  /\ period_counter' = 0
  /\ pc' = "loop"
  /\ event' = "startup"
  /\ UNCHANGED <<args, dialog_available, period_index, print_info,
                 sleep_period_duration, sleep_print_info, elapsed,
                 time_remaining, message, roots, accepted, declines>>

\* main: _parse_arguments raises ValueError and the process ends.
StartupFails ==
  /\ pc = "main"
  /\ _parse_arguments(args).raised = TRUE
  /\ pc' = "ValueError"
  /\ event' = "error"
  /\ UNCHANGED <<args, dialog_available, arguments, _MIN_MORE_TIME,
                 period_counter, period_index, print_info,
                 sleep_period_duration, sleep_print_info, elapsed,
                 time_remaining, stdout, message, roots, accepted, declines>>

\* main: one pass of the loop up to the call of _sleep_for, and _sleep_for
\* up to its loop: the clock is read and the line is cleared.
BeginPeriod ==
  /\ pc = "loop"
  /\ LoopCondition
  /\ period_index' = PeriodIndex(period_counter, arguments.period_durations)
  /\ print_info' =
       _PrintMetaInfo(period_counter,
                      arguments.period_durations[period_index' + 1].duration,
                      arguments.period_durations[period_index' + 1].label,
                      FALSE)
  /\ sleep_period_duration' = arguments.period_durations[period_index' + 1].duration
  /\ sleep_print_info' = print_info'
  /\ elapsed' = 0
  /\ stdout' = ClearLine
  /\ pc' = "while"
  /\ event' = "begin"
  /\ declines' = 0
  /\ UNCHANGED <<args, dialog_available, arguments, _MIN_MORE_TIME,
                 period_counter, time_remaining, message, roots, accepted>>

\* _sleep_for: the loop condition holds and one status line is printed.
Tick ==
  /\ pc = "while"
  /\ time_remaining' = sleep_period_duration - elapsed
  /\ StillCounting(time_remaining')
  /\ stdout' = StatusLine(time_remaining', sleep_print_info)
  /\ pc' = "sleep"
  /\ event' = "tick"
  /\ UNCHANGED <<args, dialog_available, arguments, _MIN_MORE_TIME,
                 period_counter, period_index, print_info,
                 sleep_period_duration, sleep_print_info, elapsed, message,
                 roots, accepted, declines>>

\* _sleep_for: time.sleep(1), after which the clock is read again.
Sleep(t) ==
  /\ pc = "sleep"
  /\ elapsed' = elapsed + t
  /\ pc' = "while"
  /\ event' = "sleep"
  /\ UNCHANGED <<args, dialog_available, arguments, _MIN_MORE_TIME,
                 period_counter, period_index, print_info,
                 sleep_period_duration, sleep_print_info, time_remaining,
                 stdout, message, roots, accepted, declines>>

\* _sleep_for: the loop condition fails and _sleep_for returns, to main
\* (which calls _ask_user_to_continue) or into the loop of
\* _ask_user_to_continue.
Expire ==
  /\ pc = "while"
  /\ time_remaining' = sleep_period_duration - elapsed
  /\ ~StillCounting(time_remaining')
  /\ pc' = IF sleep_print_info.is_overtime THEN "ask_again" ELSE "ask"
  /\ event' = "expiry"
  /\ UNCHANGED <<args, dialog_available, arguments, _MIN_MORE_TIME,
                 period_counter, period_index, print_info,
                 sleep_period_duration, sleep_print_info, elapsed, stdout,
                 message, roots, accepted, declines>>

\* _ask_user_to_continue: a root is created and withdrawn, and the dialog
\* is shown.
Ask ==
  /\ pc = "ask"
  /\ dialog_available
  /\ roots' = roots + 1
  /\ message' = Message(print_info)
  /\ pc' = "dialog"
  /\ event' = "prompt"
  /\ UNCHANGED <<args, dialog_available, arguments, _MIN_MORE_TIME,
                 period_counter, period_index, print_info,
                 sleep_period_duration, sleep_print_info, elapsed,
                 time_remaining, stdout, accepted, declines>>

\* _ask_user_to_continue: tkinter.Tk() raises TclError and the process ends.
AskFails ==
  /\ pc = "ask"
  /\ ~dialog_available
  /\ pc' = "TclError"
  /\ event' = "error"
  /\ UNCHANGED <<args, dialog_available, arguments, _MIN_MORE_TIME,
                 period_counter, period_index, print_info,
                 sleep_period_duration, sleep_print_info, elapsed,
                 time_remaining, stdout, message, roots, accepted, declines>>

\* _ask_user_to_continue: the loop condition shows the dialog again.
AskAgainAfterOvertime ==
  /\ pc = "ask_again"
  /\ message' = Message(print_info)
  /\ pc' = "dialog"
  /\ event' = "prompt"
  /\ UNCHANGED <<args, dialog_available, arguments, _MIN_MORE_TIME,
                 period_counter, period_index, print_info,
                 sleep_period_duration, sleep_print_info, elapsed,
                 time_remaining, stdout, roots, accepted, declines>>

\* Faulty variant of Answer: the grant is computed from the duration last
\* counted down, not from the period's.
AnswerCompounding(ok) ==
  /\ pc = "dialog"
  /\ ok => (period_counter < MaxPeriods /\ accepted < MaxPeriods)
  /\ event' = IF ok THEN "accept" ELSE "decline"
  /\ accepted' = IF ok THEN accepted + 1 ELSE accepted
  /\ declines' = IF ok \/ declines = MaxDeclines THEN declines ELSE declines + 1
  /\ IF AskAgain(ok)
     THEN /\ sleep_period_duration' = _more_time(sleep_period_duration)
          /\ sleep_print_info' = with_is_overtime(print_info)
          /\ elapsed' = 0
          /\ stdout' = ClearLine
          /\ pc' = "while"
          /\ UNCHANGED period_counter
     ELSE /\ period_counter' = NextCounter(period_counter)
          /\ pc' = "loop"
          /\ UNCHANGED <<sleep_period_duration, sleep_print_info, elapsed,
                         stdout>>
  /\ UNCHANGED <<args, dialog_available, arguments, _MIN_MORE_TIME,
                 period_index, print_info, time_remaining, message, roots>>

\* The user answers the dialog: ok is TRUE for OK, FALSE for Cancel.
\* Either the loop body runs (_sleep_for is called with the grant, up to
\* its loop) or _ask_user_to_continue returns and main advances the counter.
Answer(ok) ==
  /\ pc = "dialog"
  /\ ok => (period_counter < MaxPeriods /\ accepted < MaxPeriods)
  /\ event' = IF ok THEN "accept" ELSE "decline"
  /\ accepted' = IF ok THEN accepted + 1 ELSE accepted
  /\ declines' = IF ok \/ declines = MaxDeclines THEN declines ELSE declines + 1
  /\ IF AskAgain(ok)
     THEN /\ sleep_period_duration' = _more_time(print_info.period_duration)
          /\ sleep_print_info' = with_is_overtime(print_info)
          /\ elapsed' = 0
          /\ stdout' = ClearLine
          /\ pc' = "while"
          /\ UNCHANGED period_counter
     ELSE /\ period_counter' = NextCounter(period_counter)
          /\ pc' = "loop"
          /\ UNCHANGED <<sleep_period_duration, sleep_print_info, elapsed,
                         stdout>>
  /\ UNCHANGED <<args, dialog_available, arguments, _MIN_MORE_TIME,
                 period_index, print_info, time_remaining, message, roots>>

Next ==
  \/ Startup
  \/ StartupFails
  \/ BeginPeriod
  \/ Tick
  \/ \E t \in SleepTimes : Sleep(t)
  \/ Expire
  \/ Ask
  \/ AskFails
  \/ AskAgainAfterOvertime
  \/ \E ok \in BOOLEAN : Answer(ok)

Spec == Init /\ [][Next]_vars

\* The program as it is scheduled: a single thread of control that takes its
\* next step whenever it has one (the clock advances and time.sleep returns),
\* and a user who, shown the dialog again and again, answers OK at some
\* point. AskFails and StartupFails end the process and need no fairness;
\* the claims about progress start from a process that has started.
LiveSpec ==
  /\ Init
  /\ [][Next]_vars
  /\ WF_vars(BeginPeriod)
  /\ WF_vars(Tick)
  /\ WF_vars(\E t \in SleepTimes : Sleep(t))
  /\ WF_vars(Expire)
  /\ WF_vars(Ask)
  /\ WF_vars(AskAgainAfterOvertime)
  /\ SF_vars(Answer(TRUE))

\* ----------------------------------------------------------------- claims

Abs(x) == IF x >= 0 THEN x ELSE -x

\* A countdown, a prompt or its dialog is in progress.
InCycle == pc \in {"while", "sleep", "ask", "ask_again", "dialog"}

\* The entry of the period sequence at the counter's position.
CurrentPeriod ==
  arguments.period_durations[(period_counter % Len(arguments.period_durations)) + 1]

\* C1: in every state of a cycle the period counted down, normally or in
\* overtime, is the entry of the sequence at index period_counter mod n, and
\* from one cycle to the next the index moves on by one, modulo n.
C1_PeriodIsCounterModLength ==
  /\ [](InCycle =>
          /\ period_index = period_counter % Len(arguments.period_durations)
          /\ sleep_print_info.period_counter = period_counter
          /\ sleep_print_info.period_duration = CurrentPeriod.duration
          /\ sleep_print_info.period_label = CurrentPeriod.label
          /\ print_info.period_duration = CurrentPeriod.duration
          /\ (~sleep_print_info.is_overtime
                => sleep_period_duration = CurrentPeriod.duration))
  /\ [][event' = "begin" /\ event = "accept"
          => period_index' = (period_index + 1) % Len(arguments.period_durations)]_vars
  /\ [][event' = "begin" /\ event = "startup" => period_index' = 0]_vars

\* C1: the fourth period of a two-element sequence, in overtime, is entry 1.
C1_Witness ==
  /\ Len(arguments.period_durations) = 2
  /\ period_counter = 3
  /\ period_index = 1
  /\ pc = "sleep"
  /\ sleep_print_info.is_overtime

\* C2: the counter starts at 0, equals the number of OK answers in every
\* state, and changes only by +1 and only in the step of an OK answer.
C2_CounterCountsAccepts ==
  /\ [](period_counter = accepted)
  /\ [](event = "startup" => period_counter = 0)
  /\ [][period_counter' # period_counter
          => period_counter' = period_counter + 1 /\ event' = "accept"]_vars
  /\ [][event' = "accept" => period_counter' = period_counter + 1]_vars

\* C2: a Cancel answer after two OK answers has left the counter at 2.
C2_Witness ==
  /\ event = "decline"
  /\ accepted = 2
  /\ period_counter = 2

\* C3: the step of an OK answer starts no countdown and shows no dialog; it
\* advances the counter by one, and the only step after it starts the normal
\* countdown of the next period, under the next ordinal and with the counter
\* unchanged.
C3_AcceptEndsTheCycle ==
  /\ [][event' = "accept"
          => /\ pc' = "loop"
             /\ period_counter' = period_counter + 1
             /\ UNCHANGED <<sleep_period_duration, sleep_print_info, elapsed,
                            message, stdout>>]_vars
  /\ [][event = "accept"
          => /\ event' = "begin"
             /\ pc' = "while"
             /\ period_counter' = period_counter
             /\ ~sleep_print_info'.is_overtime
             /\ sleep_print_info'.period_counter
                  = sleep_print_info.period_counter + 1
             /\ sleep_print_info'.period_counter = period_counter
             /\ sleep_period_duration' = CurrentPeriod.duration
             /\ elapsed' = 0]_vars

\* C3: a cycle with an overtime has been accepted and the next period has
\* begun.
C3_Witness ==
  /\ event = "begin"
  /\ accepted = 2
  /\ print_info.period_counter = 2
  /\ ~sleep_print_info.is_overtime
  /\ roots = 2

\* C4: the step of a Cancel answer starts an overtime countdown (flag set,
\* elapsed time zero) whose target is the overtime grant; when an overtime
\* countdown ends, the next step shows the same dialog again; and overtime
\* is left only by an OK answer.
C4_DeclineLoops ==
  /\ [][event' = "decline"
          => /\ pc' = "while"
             /\ elapsed' = 0
             /\ sleep_print_info'.is_overtime
             /\ sleep_period_duration' = _more_time(print_info.period_duration)
             /\ sleep_period_duration' = message.more_time]_vars
  /\ [][event = "expiry" /\ sleep_print_info.is_overtime
          => /\ event' = "prompt"
             /\ pc' = "dialog"
             /\ message' = message]_vars
  /\ [](event = "expiry" /\ sleep_print_info.is_overtime
          => ENABLED AskAgainAfterOvertime)
  /\ [][sleep_print_info.is_overtime /\ ~sleep_print_info'.is_overtime
          => event = "accept"]_vars
  /\ [][sleep_print_info.is_overtime /\ pc' = "loop" /\ pc # "loop"
          => event' = "accept"]_vars

\* C4: the dialog is shown again after the overtime that followed a second
\* Cancel answer in a row.
C4_Witness ==
  /\ declines = 2
  /\ event = "prompt"
  /\ sleep_print_info.is_overtime
  /\ pc = "dialog"

\* s is a whole number of seconds nearest to x.
IsNearestSecond(s, x) == s % Second = 0 /\ 2 * Abs(s - x) <= Second

\* C5: the target of the countdown a Cancel answer starts is
\* max(minimum_more_time, D/10 rounded to the nearest whole second), D the
\* period's duration.
C5_GrantIsFloorOrNearestTenth ==
  event = "decline" =>
    LET tenth == print_info.period_duration \div 10
    IN  \E s \in {((tenth \div Second) + k) * Second : k \in 0..1} :
          /\ IsNearestSecond(s, tenth)
          /\ sleep_period_duration = Max(_MIN_MORE_TIME, s)

\* C6: the step after a countdown's end shows the dialog (or, where no
\* dialog can be made, ends the process), the dialog is shown only in the
\* step after a countdown's end, the step after the dialog is shown is the
\* user's answer, a countdown starts only with that answer, and while the
\* dialog is up the countdown's remaining time is not above zero.
C6_OnePromptPerExpiry ==
  /\ [][event = "expiry"
          => \/ event' = "prompt" /\ pc' = "dialog"
             \/ event' = "error" /\ ~dialog_available]_vars
  /\ [](event = "expiry" /\ dialog_available
          => ENABLED (Ask \/ AskAgainAfterOvertime))
  /\ [][event' = "prompt" => event = "expiry"]_vars
  /\ [][event = "prompt" => event' \in {"accept", "decline"}]_vars
  /\ [][event' \in {"accept", "decline"} => event = "prompt"]_vars
  /\ [][event' = "begin" => event \in {"startup", "accept"}]_vars
  /\ [][elapsed' = 0 /\ pc' = "while" => event' \in {"begin", "decline"}]_vars
  /\ [](pc \in {"ask", "ask_again", "dialog"}
          => /\ time_remaining = sleep_period_duration - elapsed
             /\ time_remaining <= ZERO)

\* C6: the dialog is up after a countdown that ran over its target by more
\* than a second's worth of jitter in total.
C6_Witness ==
  /\ pc = "dialog"
  /\ event = "prompt"
  /\ time_remaining < ZERO
  /\ stdout.layout = "countdown"

\* C7: the target of the active countdown is above zero.
C7_TargetIsPositive ==
  pc \in {"while", "sleep"} => sleep_period_duration > ZERO

\* C8: a status line is printed only for a remaining time above zero and
\* shows a value that is not negative; at each reading of the clock the loop
\* is left exactly when target - elapsed is zero or less.
C8_NoUpdateAtOrBelowZero ==
  /\ [](event = "tick"
          => /\ time_remaining = sleep_period_duration - elapsed
             /\ time_remaining > ZERO
             /\ stdout.shown >= ZERO)
  /\ [](event = "expiry"
          => /\ time_remaining = sleep_period_duration - elapsed
             /\ time_remaining <= ZERO)
  /\ [][pc = "while"
          => /\ sleep_period_duration - elapsed <= ZERO => event' = "expiry"
             /\ sleep_period_duration - elapsed > ZERO
                  => event' = "tick" /\ stdout'.shown >= ZERO]_vars

\* C8: the loop is left at a remaining time of exactly zero, after a status
\* line.
C8_Witness ==
  /\ event = "expiry"
  /\ time_remaining = ZERO
  /\ stdout.layout \in {"countdown", "overtime"}

\* C9: the remaining time a status line shows is the computed remaining time
\* rounded to the nearest whole second (either neighbour at a tie).
C9_ShownIsNearestSecond ==
  event = "tick" => IsNearestSecond(stdout.shown, time_remaining)

\* The process has started up and its dialogs can be made.
Running == pc \notin {"main", "ValueError"} /\ dialog_available

\* C10: once started, with a dialog to be had, the process is never stuck:
\* some step is enabled in every state, both answers can be given to the
\* dialog (below the model's cap on the counter), and after an OK answer the
\* step that begins the next countdown is enabled.
C10_NoTerminalState ==
  /\ Running => ENABLED Next
  /\ Running /\ pc = "loop" => ENABLED BeginPeriod
  /\ Running /\ pc = "while" => ENABLED (Tick \/ Expire)
  /\ Running /\ pc = "sleep" => \A t \in SleepTimes : ENABLED Sleep(t)
  /\ Running /\ pc = "dialog" =>
       /\ ENABLED Answer(FALSE)
       /\ period_counter < MaxPeriods => ENABLED Answer(TRUE)
  /\ Running => pc \in {"loop", "while", "sleep", "ask", "ask_again", "dialog"}

\* C10: the loop has come round for the third time.
C10_Witness ==
  /\ pc = "loop"
  /\ event = "accept"
  /\ period_counter = 3
  /\ dialog_available

\* C11: _MIN_MORE_TIME is assigned by the startup step, which happens once,
\* before any countdown, and gives it the parsed --min-more-time; no other
\* step changes it, so in every later state it is that value and the target
\* of every overtime countdown is computed with it as the floor.
C11_MinMoreTimeSetOnce ==
  /\ [][event' = "startup"
          => /\ event = "start"
             /\ _MIN_MORE_TIME'
                  = _interpret_period_duration_argument(args.min_more_time).value.duration]_vars
  /\ [][event' # "startup" => _MIN_MORE_TIME' = _MIN_MORE_TIME]_vars
  /\ [](event = "start" => stdout = NoLine /\ pc = "main")
  /\ [](pc \notin {"main", "ValueError"}
          => /\ _MIN_MORE_TIME = arguments.min_more_time
             /\ _MIN_MORE_TIME
                  = _interpret_period_duration_argument(args.min_more_time).value.duration)
  /\ [](InCycle /\ sleep_print_info.is_overtime
          => sleep_period_duration
               = Max(arguments.min_more_time,
                     _round_to_nearest_second(CurrentPeriod.duration \div 10)))

\* C11: in the second cycle an overtime countdown runs on the floor, which
\* is not the module's default.
C11_Witness ==
  /\ event = "decline"
  /\ accepted = 1
  /\ sleep_period_duration = _MIN_MORE_TIME
  /\ _MIN_MORE_TIME = 2 * Second
  /\ sleep_period_duration
       > _round_to_nearest_second(print_info.period_duration \div 10)

\* The unit suffixes of the grammar: \d+h(ours)?, \d+m(in(utes)?)?,
\* \d+s(ec(onds)?)?.
UnitSuffixes ==
  {<<"h">>, <<"h", "o", "u", "r", "s">>,
   <<"m">>, <<"m", "i", "n">>, <<"m", "i", "n", "u", "t", "e", "s">>,
   <<"s">>, <<"s", "e", "c">>, <<"s", "e", "c", "o", "n", "d", "s">>}

\* v is one or more digits followed by a unit suffix, and nothing else.
IsUnitValue(v) ==
  \E k \in 1..Len(v) :
    /\ \A i \in 1..k : v[i] \in Digits
    /\ SubSeq(v, k + 1, Len(v)) \in UnitSuffixes

\* t is a unit value, or one behind a label of two or more identifier
\* characters, not starting with a digit, and a colon.
IsWellFormedToken(t) ==
  \/ IsUnitValue(t)
  \/ \E k \in 2..Len(t) :
       /\ k < Len(t)
       /\ t[1] \in Letters \cup {"_"}
       /\ \A i \in 1..k : t[i] \in Letters \cup Digits \cup {"_"}
       /\ t[k + 1] = ":"
       /\ IsUnitValue(SubSeq(t, k + 2, Len(t)))

\* The command line has a token that the grammar does not allow.
HasMalformedToken ==
  \/ \E i \in 1..Len(Split(args.period_durations)) :
       ~IsWellFormedToken(Split(args.period_durations)[i])
  \/ ~IsWellFormedToken(args.min_more_time)

\* C12: with a malformed token on the command line the process never gets
\* past startup: no status line is printed, no dialog is shown and the
\* counter stays as it was.
C12_MalformedNeverRuns ==
  HasMalformedToken =>
    /\ pc \in {"main", "ValueError"}
    /\ stdout = NoLine
    /\ message = NoMessage
    /\ roots = 0
    /\ period_counter = 0
    /\ accepted = 0

\* ------------------------------------------------- the parser on its own

\* Magnitudes as they are written and the numbers they stand for.
ParseMagnitudes ==
  { [text |-> <<"0">>, n |-> 0],
    [text |-> <<"2">>, n |-> 2],
    [text |-> <<"5">>, n |-> 5],
    [text |-> <<"0", "7">>, n |-> 7],
    [text |-> <<"9", "0">>, n |-> 90],
    [text |-> <<"1", "2", "0">>, n |-> 120] }

\* The unit suffixes and the seconds one unit has.
ParseUnits ==
  { [text |-> <<"h">>, seconds |-> 3600],
    [text |-> <<"h", "o", "u", "r", "s">>, seconds |-> 3600],
    [text |-> <<"m">>, seconds |-> 60],
    [text |-> <<"m", "i", "n">>, seconds |-> 60],
    [text |-> <<"m", "i", "n", "u", "t", "e", "s">>, seconds |-> 60],
    [text |-> <<"s">>, seconds |-> 1],
    [text |-> <<"s", "e", "c">>, seconds |-> 1],
    [text |-> <<"s", "e", "c", "o", "n", "d", "s">>, seconds |-> 1] }

\* Tokens <label:><n><unit> with the period each one stands for.
ParseTokens ==
  { [text |-> (IF l = None THEN <<>> ELSE l \o <<":">>) \o m.text \o u.text,
     period |-> [label |-> l, duration |-> m.n * u.seconds * Second]] :
      l \in {None, <<"w", "k">>}, m \in ParseMagnitudes, u \in ParseUnits }

\* The tokens that are put in lists of two.
ParsePairTokens ==
  { t \in ParseTokens :
      /\ t.period.label = None
      /\ \E m \in ParseMagnitudes : \E u \in ParseUnits :
           m.n \in {2, 90} /\ t.text = m.text \o u.text }

\* The command lines the parser is tried on: every token alone, lists of
\* two tokens, and one token of no unit.
ParseCommandLines ==
  { [period_durations |-> t.text, min_more_time |-> <<"1", "s">>] :
      t \in ParseTokens }
  \cup
  { [period_durations |-> t1.text \o <<",">> \o t2.text,
     min_more_time |-> <<"1", "s">>] : t1 \in ParsePairTokens, t2 \in ParsePairTokens }
  \cup
  { [period_durations |-> <<"1", "0", "x">>, min_more_time |-> <<"1", "s">>] }

ParseInit ==
  /\ args \in ParseCommandLines
  /\ dialog_available \in BOOLEAN
  /\ pc = "main"
  /\ arguments = _Arguments(<<>>, ZERO)
  /\ _MIN_MORE_TIME = 60 * Second
  /\ period_counter = 0
  /\ period_index = 0
  /\ print_info = NoInfo
  /\ sleep_period_duration = ZERO
  /\ sleep_print_info = NoInfo
  /\ elapsed = 0
  /\ time_remaining = ZERO
  /\ stdout = NoLine
  /\ message = NoMessage
  /\ roots = 0
  /\ event = "start"
  /\ accepted = 0
  /\ declines = 0

ParseNext ==
  \/ Startup
  \/ StartupFails

\* main up to its loop, on the parser's command lines.
SpecParse == ParseInit /\ [][ParseNext]_vars

\* C13: a token <n><unit> is parsed to n*3600, n*60 or n seconds by its
\* unit's family, whichever spelling of the unit is used, and a list of two
\* tokens gives the two periods in the order of the tokens; none of these
\* command lines is refused.
C13_ParsedDurations ==
  /\ \A t \in ParseTokens :
       args.period_durations = t.text =>
         /\ pc # "ValueError"
         /\ pc = "loop" => arguments.period_durations = <<t.period>>
  /\ \A t1 \in ParsePairTokens : \A t2 \in ParsePairTokens :
       args.period_durations = t1.text \o <<",">> \o t2.text =>
         /\ pc # "ValueError"
         /\ pc = "loop" => arguments.period_durations = <<t1.period, t2.period>>

\* C13: "2hours,90s" has been parsed to 7200 s followed by 90 s.
C13_Witness ==
  /\ pc = "loop"
  /\ args.period_durations
       = <<"2", "h", "o", "u", "r", "s", ",", "9", "0", "s">>
  /\ arguments.period_durations
       = <<[label |-> None, duration |-> 7200 * Second],
           [label |-> None, duration |-> 90 * Second]>>

\* --------------------------------------------- the default command line

\* The defaults of the two options: "work:25min,relax:5min" and "1min".
DefaultCommandLine ==
  [period_durations |->
     <<"w", "o", "r", "k", ":", "2", "5", "m", "i", "n", ",",
       "r", "e", "l", "a", "x", ":", "5", "m", "i", "n">>,
   min_more_time |-> <<"1", "m", "i", "n">>]

ScenarioInit ==
  /\ args = DefaultCommandLine
  /\ dialog_available \in BOOLEAN
  /\ pc = "main"
  /\ arguments = _Arguments(<<>>, ZERO)
  /\ _MIN_MORE_TIME = 60 * Second
  /\ period_counter = 0
  /\ period_index = 0
  /\ print_info = NoInfo
  /\ sleep_period_duration = ZERO
  /\ sleep_print_info = NoInfo
  /\ elapsed = 0
  /\ time_remaining = ZERO
  /\ stdout = NoLine
  /\ message = NoMessage
  /\ roots = 0
  /\ event = "start"
  /\ accepted = 0
  /\ declines = 0

\* The steps of a process started with no options: the defaults parse, so
\* the arguments are never rejected.
ScenarioNext ==
  \/ Startup
  \/ BeginPeriod
  \/ Tick
  \/ \E t \in SleepTimes : Sleep(t)
  \/ Expire
  \/ Ask
  \/ AskFails
  \/ AskAgainAfterOvertime
  \/ \E ok \in BOOLEAN : Answer(ok)

\* The process started with no options.
SpecScenario == ScenarioInit /\ [][ScenarioNext]_vars

Work == <<"w", "o", "r", "k">>

Relax == <<"r", "e", "l", "a", "x">>

\* In the cycle of ordinal n the countdowns are those of the period
\* (label, seconds): the normal one has its duration as target, and every
\* status line carries the ordinal, the duration and the label.
CycleIs(n, label, seconds) ==
  InCycle /\ period_counter = n =>
    /\ print_info = _PrintMetaInfo(n, seconds * Second, label, FALSE)
    /\ sleep_print_info.period_counter = n
    /\ sleep_print_info.period_duration = seconds * Second
    /\ sleep_print_info.period_label = label
    /\ ~sleep_print_info.is_overtime => sleep_period_duration = seconds * Second
    /\ stdout.layout \in {"countdown", "overtime"} =>
         /\ stdout.period_counter = n
         /\ stdout.period_duration = seconds * Second
         /\ stdout.period_label = label
         /\ stdout.layout = "overtime" <=> sleep_print_info.is_overtime

\* C14: started with the defaults, cycle 0 counts down 1500 s labelled
\* "work", each Cancel answer in it starts an overtime countdown of 150 s
\* after which the dialog is shown again, only an OK answer moves on, cycle 1
\* counts down 300 s labelled "relax" and cycle 2 counts down 1500 s
\* labelled "work".
C14_DefaultScenario ==
  /\ [](pc \notin {"main", "ValueError"}
          => /\ arguments.period_durations
                  = <<_PeriodDuration(Work, 1500 * Second),
                      _PeriodDuration(Relax, 300 * Second)>>
             /\ _MIN_MORE_TIME = 60 * Second)
  /\ [](CycleIs(0, Work, 1500))
  /\ [](CycleIs(1, Relax, 300))
  /\ [](CycleIs(2, Work, 1500))
  /\ [](InCycle /\ period_counter \in {0, 2} /\ sleep_print_info.is_overtime
          => sleep_period_duration = 150 * Second)
  /\ [][event' = "decline" /\ period_counter \in {0, 2}
          => /\ sleep_period_duration' = 150 * Second
             /\ sleep_print_info'.is_overtime
             /\ elapsed' = 0
             /\ pc' = "while"]_vars
  /\ [][event = "expiry" /\ dialog_available
          => event' = "prompt" /\ pc' = "dialog"]_vars
  /\ [][event = "prompt" => event' \in {"accept", "decline"}]_vars
  /\ [][period_counter' # period_counter
          => event' = "accept" /\ period_counter' = period_counter + 1]_vars
  /\ [][event = "accept" => event' = "begin" /\ pc' = "while"]_vars

\* C14: cycle 2 is counting down "work", 1500 s, with a status line out.
C14_Witness ==
  /\ period_counter = 2
  /\ event = "tick"
  /\ stdout = [layout |-> "countdown", period_counter |-> 2,
               shown |-> 1500 * Second, period_duration |-> 1500 * Second,
               period_label |-> Work]
  /\ roots = 2

\* C15: where no dialog root can be created the process ends at startup:
\* no countdown begins, no status line is printed and the process does not
\* get as far as a prompt.
C15_NoDialogFailsAtStartup ==
  ~dialog_available =>
    /\ pc \in {"main", "ValueError", "TclError"}
    /\ event \notin {"begin", "tick", "sleep", "expiry"}
    /\ stdout.layout \notin {"countdown", "overtime"}

\* C16: every overtime countdown of a cycle has the same target, the grant
\* for the period's configured duration: a Cancel answer after an overtime
\* starts a countdown with the target the last one had, whatever time has
\* passed.
C16_GrantsDoNotCompound ==
  /\ [](InCycle /\ sleep_print_info.is_overtime
          => sleep_period_duration
               = Max(_MIN_MORE_TIME,
                     _round_to_nearest_second(CurrentPeriod.duration \div 10)))
  /\ [][event' = "decline" /\ sleep_print_info.is_overtime
          => sleep_period_duration' = sleep_period_duration]_vars
  /\ [][sleep_print_info.is_overtime /\ sleep_print_info'.is_overtime
          => sleep_period_duration' = sleep_period_duration]_vars

\* C16: a second Cancel answer in a row, where a grant computed from the
\* first grant would have been another one.
C16_Witness ==
  /\ event = "decline"
  /\ declines = 2
  /\ elapsed = 0
  /\ Max(_MIN_MORE_TIME, _round_to_nearest_second(sleep_period_duration \div 10))
       # sleep_period_duration

\* C17: a Cancel answer leaves the counter, the index, the period sequence
\* and the period's print_info as they are, and the info of the overtime
\* countdown differs from it in the flag alone; the status lines of the
\* overtime and the dialog's message carry the ordinal, the duration and the
\* label of the period that elapsed; the parsed sequence never changes.
C17_DeclineKeepsThePeriod ==
  /\ [][event' = "decline"
          => /\ UNCHANGED <<period_counter, period_index, print_info,
                            arguments, message>>
             /\ sleep_print_info'
                  = [print_info EXCEPT !.is_overtime = TRUE]]_vars
  /\ [](InCycle /\ stdout.layout = "overtime"
          => /\ stdout.period_counter = period_counter
             /\ stdout.period_duration = CurrentPeriod.duration
             /\ stdout.period_label = CurrentPeriod.label)
  /\ [](pc = "dialog"
          => /\ message.period_counter = period_counter
             /\ message.period_duration = CurrentPeriod.duration)
  /\ [][pc # "main" => arguments' = arguments]_vars

\* C17: the dialog is up after an overtime of the labelled second period.
C17_Witness ==
  /\ pc = "dialog"
  /\ period_counter = 1
  /\ stdout.layout = "overtime"
  /\ stdout.period_counter = 1
  /\ stdout.period_label = <<"a", "_">>
  /\ stdout.period_duration = 2 * Second
  /\ message.period_counter = 1

\* C18: the time the dialog's message offers is the target of the overtime
\* countdown that a Cancel answer to that dialog starts.
C18_AnnouncedIsGranted ==
  /\ [][event' = "decline" => sleep_period_duration' = message.more_time]_vars
  /\ [](pc \in {"while", "sleep", "ask_again"} /\ sleep_print_info.is_overtime
          => sleep_period_duration = message.more_time)

\* C18: a Cancel answer has started an overtime of the time offered, which
\* is above the floor.
C18_Witness ==
  /\ event = "decline"
  /\ sleep_period_duration = message.more_time
  /\ message.more_time > _MIN_MORE_TIME
  /\ message.period_counter = period_counter

\* C19: under LiveSpec, with a dialog to be had, every countdown, normal or
\* overtime, of every cycle leads to that cycle's dialog being shown; and
\* every value of the counter up to the model's cap is reached, each with a
\* normal countdown of the period at the counter's position in the sequence.
C19_CountdownsExpireAndTheCycleGoesOn ==
  /\ \A k \in 0..MaxPeriods : \A b \in BOOLEAN :
       (/\ dialog_available
        /\ pc \in {"while", "sleep"}
        /\ period_counter = k
        /\ sleep_print_info.is_overtime = b)
         ~> (/\ pc = "dialog"
             /\ event = "prompt"
             /\ period_counter = k
             /\ sleep_print_info.is_overtime = b)
  /\ \A k \in 0..(MaxPeriods - 1) :
       (Running /\ period_counter = k) ~> (period_counter = k + 1)
  /\ \A k \in 0..MaxPeriods :
       (Running /\ (period_counter < k \/ (period_counter = k /\ pc = "loop")))
         ~> (/\ event = "begin"
             /\ period_counter = k
             /\ period_index = k % Len(arguments.period_durations)
             /\ ~sleep_print_info.is_overtime
             /\ sleep_period_duration = CurrentPeriod.duration)

\* C19: the third cycle of a sequence of two periods has begun, back at the
\* first period, after a cycle that had an overtime.
C19_Witness ==
  /\ event = "begin"
  /\ pc = "while"
  /\ period_counter = 2
  /\ period_index = 0
  /\ Len(arguments.period_durations) = 2
  /\ accepted = 2

\* C20: at most one dialog root created by _ask_user_to_continue exists at
\* any moment.
C20_AtMostOneRoot == roots <= 1

====
